---- MODULE Spec2Model ----
(***************************************************************************)
(* Model of the video pupilometry of mrgaze (src/mrgaze/pupilometry.py)    *)
(* and of its predecessor geetee (src/geetee/pupilometry.py).              *)
(*                                                                         *)
(* Numbers are fixed point: the raw CSV keeps times in 1/1000 s ('%0.3f'), *)
(* area and center in 1/10 pixel ('%0.1f'), artifact power and glint in    *)
(* 1/1000 ('%0.3f'); the array read back by genfromtxt and the filtered    *)
(* CSV ('%.6f') are in 1/1000000.  Before formatting, ellipse centers are  *)
(* in 1/100 pixel, axes in 1/10 pixel, artifact power and glint in         *)
(* 1/10000.  np.nan is the sentinel NaN.                                   *)
(***************************************************************************)
EXTENDS Integers, Sequences, FiniteSets, TLC

VARIABLES
    pkg,        \* which package's pupilometry module runs: "mrgaze" | "geetee"
    cfg,        \* configuration: [graphics, overwrite, method]
    env,        \* what the file system / OpenCV will answer during set-up
    fps,        \* CV_CAP_PROP_FPS of the input video
    nframes,    \* number of frames the source delivers before end of stream
    rawFile,    \* raw pupilometry CSV: [exists, lines]
    filtFile,   \* filtered pupilometry CSV: [exists, lines]
    pc,         \* position in VideoPupilometry / the call being made
    keep_going, \* status of the last LoadVideoFrame
    frame,      \* the frame last read
    fc,         \* frame counter
    streams,    \* streams currently open: subset of {"vin", "vout", "csv"}
    vout,       \* number of frames written to the output video
    ret,        \* how the call ended: "none" | "True" | "False" | "raised"
    msg,        \* the last problem reported
    frames,     \* history: frames delivered by the source so far
    results,    \* history: what PupilometryEngine returned for each frame
    nfilter,    \* history: invocations of FilterPupilometry
    raw0,       \* history: the raw CSV as it was before the call
    arg,        \* input of a directly called function
    out         \* its result

vars == <<pkg, cfg, env, fps, nframes, rawFile, filtFile, pc, keep_going, frame,
          fc, streams, vout, ret, msg, frames, results, nfilter, raw0, arg, out>>

(***************************************************************************)
(* Bounds                                                                  *)
(***************************************************************************)
MaxFrames == 3
MaxCand == 2
GridW == 3
GridH == 2
MaxDt == 40
MaxPix == 3

(***************************************************************************)
(* Values                                                                  *)
(***************************************************************************)
NaN == -1000000

IsNaN(x) == x = NaN

\* n/d rounded to the nearest integer (n >= 0, d > 0); the inputs of the
\* model never fall on a tie, where printf would round half to even
Round(n, d) == (2 * n + d) \div (2 * d)

\* the same sequence, every element evaluated once
AsTuple(s) == SubSeq(s, 1, Len(s))

Max(S) == CHOOSE x \in S : \A y \in S : y <= x

RECURSIVE SumSeq(_)
SumSeq(s) == IF s = <<>> THEN 0 ELSE Head(s) + SumSeq(Tail(s))

RECURSIVE SeqsUpTo(_, _)
SeqsUpTo(S, n) ==
    IF n = 0 THEN {<<>>}
    ELSE LET shorter == SeqsUpTo(S, n - 1)
         IN  shorter \cup {Append(s, x) : s \in {t \in shorter : Len(t) = n - 1}, x \in S}

(***************************************************************************)
(* SegmentPupil: connected components of the opened mask and the choice    *)
(* of the largest one.  A mask is the set of its foreground pixels         *)
(* <<row, col>> on a GridH x GridW region of interest.                     *)
(***************************************************************************)
Pixels == (0 .. GridH - 1) \X (0 .. GridW - 1)

OtsuMaxval == 255
KmeansMaxval == 1

\* value of a foreground pixel of blobs: cv2.threshold(..., 255, ...) for
\* 'otsu', np.uint8(idx == pupil_idx) for 'kmeans'
FgValue(method) == IF method = "otsu" THEN OtsuMaxval ELSE KmeansMaxval

\* default structuring element of scipy.ndimage.label: 4-connectivity
Adjacent(p, q) ==
    \/ p[1] = q[1] /\ (p[2] = q[2] + 1 \/ q[2] = p[2] + 1)
    \/ p[2] = q[2] /\ (p[1] = q[1] + 1 \/ q[1] = p[1] + 1)

RECURSIVE Grow(_, _)
Grow(S, C) ==
    LET more == {q \in S \ C : \E p \in C : Adjacent(p, q)}
    IN  IF more = {} THEN C ELSE Grow(S, C \cup more)

Component(S, p) == Grow(S, {p})

\* position of a pixel in the row-major scan
Raster(p) == p[1] * GridW + p[2]

FirstPixel(C) == CHOOSE p \in C : \A q \in C : Raster(p) <= Raster(q)

\* the first pixel of every component
Seeds(S) == {p \in S : p = FirstPixel(Component(S, p))}

\* spi.measurements.label: 0 for background, components numbered 1..n in
\* the order the scan meets them
Label(S) ==
    LET seeds == Seeds(S)
    IN  [p \in Pixels |->
            IF p \notin S THEN 0
            ELSE Cardinality({s \in seeds :
                     Raster(s) <= Raster(FirstPixel(Component(S, p)))})] @@ <<>>

NLabels(S) == Cardinality(Seeds(S))

\* spi.sum(blobs, labels, range(n_labels+1)): sum of the values of blobs over
\* each label, the background label 0 included
Areas(S, labels, n_labels, method) ==
    [l \in 0 .. n_labels |->
        FgValue(method) * Cardinality({p \in S : labels[p] = l})] @@ <<>>

\* a selection that lets the last of several largest labels win
ArgMaxLast(areas, n) ==
    CHOOSE l \in 0 .. n :
        /\ areas[l] = Max({areas[m] : m \in 0 .. n})
        /\ \A m \in 0 .. n : areas[m] = areas[l] => m <= l

\* np.where(areas == areas.max())[0][0]
ArgMaxFirst(areas, n) ==
    CHOOSE l \in 0 .. n :
        /\ areas[l] = Max({areas[m] : m \in 0 .. n})
        /\ \A m \in 0 .. (l - 1) : areas[m] # areas[l]

\* a segmentation that never takes the background for the pupil
SegmentPupilNoBackground(blobs, method) ==
    LET labels == Label(blobs)
        n_labels == NLabels(blobs)
        areas == Areas(blobs, labels, n_labels, method)
        pupil_label == ArgMaxFirst(areas, n_labels)
    IN  [labels |-> labels, n_labels |-> n_labels, areas |-> areas,
         pupil_label |-> pupil_label,
         pupil_bw |-> {p \in blobs : labels[p] = pupil_label}]

\* lines 371-383 of SegmentPupil, from the opened mask on
SegmentPupil(blobs, method) ==
    LET labels == Label(blobs)
        n_labels == NLabels(blobs)
        areas == Areas(blobs, labels, n_labels, method)
        pupil_label == ArgMaxFirst(areas, n_labels)
    IN  [labels |-> labels, n_labels |-> n_labels, areas |-> areas,
         pupil_label |-> pupil_label,
         pupil_bw |-> {p \in Pixels : labels[p] = pupil_label}]

(***************************************************************************)
(* RobustRescale (geetee)                                                  *)
(***************************************************************************)
\* the pixels of gray in ascending order
Sorted(gray) ==
    CHOOSE t \in [1 .. Len(gray) -> {gray[i] : i \in 1 .. Len(gray)}] :
        /\ \A i \in 1 .. (Len(gray) - 1) : t[i] <= t[i + 1]
        /\ \A v \in {gray[i] : i \in 1 .. Len(gray)} :
               Cardinality({i \in 1 .. Len(gray) : t[i] = v})
                   = Cardinality({i \in 1 .. Len(gray) : gray[i] = v})

\* np.percentile(gray, q), in 1/100 of an intensity step: the value at
\* position q/100 * (n-1) of the sorted pixels, linearly interpolated
Percentile(gray, q) ==
    LET t == Sorted(gray)
        n == Len(gray)
        h == q * (n - 1)
        lo == h \div 100 + 1
        hi == IF lo < n THEN lo + 1 ELSE n
    IN  t[lo] * (100 - (h % 100)) + t[hi] * (h % 100)

Clip(v, lo, hi) == IF v < lo THEN lo ELSE IF v > hi THEN hi ELSE v

\* the largest value of the uint8 output
MaxIntensity == 255

\* exposure.rescale_intensity(image, in_range=(imin, imax)) on a uint8
\* image, imin and imax in 1/100: clip to the range, subtract imin, divide
\* by imax - imin, scale to 0..255, cast to uint8.  With imin = imax a
\* library build that tests for it returns the clipped image, and one that
\* does not divides 0 by 0; nan_as is what the cast of nan to uint8 gives.
RescaleIntensity(image, imin, imax, guarded, nan_as) ==
    IF imin # imax
    THEN [image |-> AsTuple([i \in 1 .. Len(image) |->
                       ((Clip(100 * image[i], imin, imax) - imin) * MaxIntensity)
                           \div (imax - imin)]),
          divides_by_zero |-> FALSE]
    ELSE IF guarded
    THEN [image |-> AsTuple([i \in 1 .. Len(image) |->
                       Clip(Clip(100 * image[i], imin, imax) \div 100, 0, MaxIntensity)]),
          divides_by_zero |-> FALSE]
    ELSE [image |-> AsTuple([i \in 1 .. Len(image) |-> nan_as]),
          divides_by_zero |-> TRUE]

\* RobustRescale(gray, perc_range) of geetee: the percentiles, then the
\* library's rescaling between them; no test for pA = pB
RobustRescale(gray, perc_range, guarded, nan_as) ==
    LET pA == Percentile(gray, perc_range[1])
        pB == Percentile(gray, perc_range[2])
        gray_rescale == RescaleIntensity(gray, pA, pB, guarded, nan_as)
    IN  [pA |-> pA, pB |-> pB, image |-> gray_rescale.image,
         divides_by_zero |-> gray_rescale.divides_by_zero]

(***************************************************************************)
(* PupilometryEngine                                                       *)
(***************************************************************************)
\* candidate rectangles of the detector, [x, y, w, h]
RectA == [x |-> 1, y |-> 1, w |-> 2, h |-> 2]
RectB == [x |-> 0, y |-> 2, w |-> 3, h |-> 3]
RectC == [x |-> 2, y |-> 0, w |-> 1, h |-> 4]
Rects == {RectA, RectB, RectC}

\* ellipses of the fitter in ROI coordinates: center in 1/100 pixel, axes
\* (b, a) in 1/10 pixel, rotation in degrees
Ell1 == [cx |-> 123, cy |-> 238, b |-> 12, a |-> 20, phi |-> 30]
Ell2 == [cx |-> 57, cy |-> 91, b |-> 25, a |-> 31, phi |-> 0]

\* el and roi_rect of a blink
NaNEllipse == [cx |-> NaN, cy |-> NaN, b |-> NaN, a |-> NaN, phi |-> NaN]
NaNRect == <<<<NaN, NaN>>, <<NaN, NaN>>>>

\* np.sqrt(pupils[:,2] * pupils[:,3]); the model keeps the square of the
\* size: sqrt is strictly increasing, so the order and the ties of the sizes
\* are those of the products w*h
Sizes(pupils) == AsTuple([i \in 1 .. Len(pupils) |-> pupils[i].w * pupils[i].h])

\* sizes.argmax(): the first index holding the maximum
ArgMax(sizes) ==
    CHOOSE i \in DOMAIN sizes :
        /\ \A j \in DOMAIN sizes : sizes[j] <= sizes[i]
        /\ \A j \in DOMAIN sizes : j < i => sizes[j] < sizes[i]

\* an argmax that keeps the last of several maxima
ArgMaxLastIndex(pupils, package) ==
    CHOOSE i \in DOMAIN pupils :
        /\ \A j \in DOMAIN pupils : Sizes(pupils)[j] <= Sizes(pupils)[i]
        /\ \A j \in DOMAIN pupils : j > i => Sizes(pupils)[j] < Sizes(pupils)[i]

\* the candidate used as ROI: mrgaze takes the largest (lines 280-281),
\* geetee the first one detected (line 223)
BestPupil(pupils, package) ==
    IF package = "mrgaze" THEN ArgMax(Sizes(pupils)) ELSE 1

\* FitPupil: Canny edges of the mask, then fitellipse.FitEllipse_RANSAC,
\* which returns the ellipse fitted in ROI coordinates; fr.fit is the
\* ellipse RANSAC arrives at for this frame's ROI
FitPupil(pupil_bw, fr) == fr.fit

\* an engine that takes an empty segmentation for a blink
PupilometryEngineBlinkOnEmpty(fr, package, method) ==
    IF Len(fr.det) > 0 /\ fr.blobs # {}
    THEN LET best_pupil == BestPupil(fr.det, package)
             r == fr.det[best_pupil]
             seg == SegmentPupil(fr.blobs, method)
             el_roi == FitPupil(seg.pupil_bw, fr)
         IN  [el |-> [el_roi EXCEPT !.cx = @ + 100 * r.x, !.cy = @ + 100 * r.y],
              roi_rect |-> <<<<r.x, r.y>>, <<r.x + r.w, r.y + r.h>>>>,
              blink |-> FALSE,
              calls |-> <<"SegmentPupil", "FitPupil">>,
              pupil_bw |-> seg.pupil_bw]
    ELSE [el |-> NaNEllipse, roi_rect |-> NaNRect, blink |-> TRUE,
          calls |-> <<>>, pupil_bw |-> {}]

\* an engine whose blink branch reports the frame origin
PupilometryEngineZeroOnBlink(fr, package, method) ==
    IF Len(fr.det) > 0
    THEN LET best_pupil == BestPupil(fr.det, package)
             r == fr.det[best_pupil]
             seg == SegmentPupil(fr.blobs, method)
             el_roi == FitPupil(seg.pupil_bw, fr)
         IN  [el |-> [el_roi EXCEPT !.cx = @ + 100 * r.x, !.cy = @ + 100 * r.y],
              roi_rect |-> <<<<r.x, r.y>>, <<r.x + r.w, r.y + r.h>>>>,
              blink |-> FALSE,
              calls |-> <<"SegmentPupil", "FitPupil">>,
              pupil_bw |-> seg.pupil_bw]
    ELSE [el |-> [cx |-> 0, cy |-> 0, b |-> 0, a |-> 0, phi |-> 0],
          roi_rect |-> NaNRect, blink |-> TRUE,
          calls |-> <<>>, pupil_bw |-> {}]

\* an engine that adds the ROI origin to the center with x and y exchanged
PupilometryEngineSwapsOffset(fr, package, method) ==
    IF Len(fr.det) > 0
    THEN LET best_pupil == BestPupil(fr.det, package)
             r == fr.det[best_pupil]
             seg == SegmentPupil(fr.blobs, method)
             el_roi == FitPupil(seg.pupil_bw, fr)
         IN  [el |-> [el_roi EXCEPT !.cx = @ + 100 * r.y, !.cy = @ + 100 * r.x],
              roi_rect |-> <<<<r.x, r.y>>, <<r.x + r.w, r.y + r.h>>>>,
              blink |-> FALSE,
              calls |-> <<"SegmentPupil", "FitPupil">>,
              pupil_bw |-> seg.pupil_bw]
    ELSE [el |-> NaNEllipse, roi_rect |-> NaNRect, blink |-> TRUE,
          calls |-> <<>>, pupil_bw |-> {}]

\* PupilometryEngine on a frame fr = [det, blobs, fit, art, glint]: det is
\* what cascade.detectMultiScale returns for it, blobs the opened mask of
\* its ROI.  calls lists the stages invoked, pupil_bw is the mask handed to
\* the fitter.
PupilometryEngine(fr, package, method) ==
    LET pupils == fr.det
        n_pupils == Len(pupils)
    IN  IF n_pupils > 0
        THEN LET best_pupil == BestPupil(pupils, package)
                 r == pupils[best_pupil]
                 seg == SegmentPupil(fr.blobs, method)
                 el_roi == FitPupil(seg.pupil_bw, fr)
             IN  [el |-> [el_roi EXCEPT !.cx = @ + 100 * r.x, !.cy = @ + 100 * r.y],
                  roi_rect |-> <<<<r.x, r.y>>, <<r.x + r.w, r.y + r.h>>>>,
                  blink |-> FALSE,
                  calls |-> <<"SegmentPupil", "FitPupil">>,
                  pupil_bw |-> seg.pupil_bw]
        ELSE [el |-> NaNEllipse, roi_rect |-> NaNRect, blink |-> TRUE,
              calls |-> <<>>, pupil_bw |-> {}]

(***************************************************************************)
(* WritePupilometry, ReadPupilometry                                       *)
(***************************************************************************)
PiE5 == 314159

\* PupilArea: np.pi * a**2, a in 1/10 pixel, the area in 1/100 pixel^2
PupilArea(ellipse) ==
    IF IsNaN(ellipse.a) THEN NaN
    ELSE Round(PiE5 * ellipse.a * ellipse.a, 100000)

\* '%0.1f' of a value in 1/100: 1/10, 'nan' for nan
Fmt1(x) == IF IsNaN(x) THEN NaN ELSE Round(x, 10)

\* '%0.3f' of a value in 1/10000: 1/1000
Fmt3(x) == IF IsNaN(x) THEN NaN ELSE Round(x, 10)

\* '%d' of a boolean
FmtBool(b) == IF b THEN 1 ELSE 0

\* the data line WritePupilometry writes: t in 1/1000 s as '%0.3f' prints it
WritePupilometry(package, t, ellipse, blink, art_power, pglint) ==
    LET area == PupilArea(ellipse)
    IN  IF package = "mrgaze"
        THEN <<t, Fmt1(area), Fmt1(ellipse.cx), Fmt1(ellipse.cy), FmtBool(blink),
               Fmt3(art_power), Fmt3(pglint[1]), Fmt3(pglint[2])>>
        ELSE <<t, Fmt1(area), Fmt1(ellipse.cx), Fmt1(ellipse.cy), FmtBool(blink),
               art_power \div 10000>>

\* a time taken after the frame counter was incremented
FrameTimeNext(count, rate) == Round(1000 * (count + 1), rate)

\* t = fc / fps as '%0.3f' prints it, in 1/1000 s
FrameTime(count, rate) == Round(1000 * count, rate)

(***************************************************************************)
(* FilterPupilometry                                                       *)
(***************************************************************************)
Absent == [exists |-> FALSE, lines |-> <<>>]
File(lines) == [exists |-> TRUE, lines |-> lines]

\* the result of a median over a window that holds a nan: scipy orders the
\* window with comparisons that are all false on nan, so which member comes
\* out is not specified
Unspecified == 2 * NaN

\* 1/1000000 per unit of each column of a raw line
ColumnScale == <<1000, 100000, 100000, 100000, 1000000, 1000, 1000, 1000>>

\* np.genfromtxt(pupils_csv, delimiter=','): one row per line, one column per
\* field; the trailing comma of a raw line makes an empty ninth field, read
\* as nan
ReadPupilometry(lines) ==
    AsTuple([i \in 1 .. Len(lines) |->
        AsTuple([c \in 1 .. 9 |->
            IF c = 9 \/ IsNaN(lines[i][c]) THEN NaN ELSE lines[i][c] * ColumnScale[c]])])

\* utils._forceodd(n / d): n/d rounded up to the nearest odd integer
ForceOdd(n, d) ==
    LET c == (n + d - 1) \div d
    IN  IF c % 2 = 1 THEN c ELSE c + 1

\* kernel widths that use the plain window lengths
KernelWidthsPlain(dt) ==
    [area |-> 250000 \div dt, px |-> 3, py |-> 3,
     blink |-> 250000 \div dt, art |-> 1000000 \div dt]

\* lines 594-599: kernel widths for a sampling time dt in 1/1000000 s
KernelWidths(dt) ==
    [area |-> ForceOdd(250000, dt),
     px |-> 3,
     py |-> 3,
     blink |-> ForceOdd(250000, dt),
     art |-> ForceOdd(1000000, dt)]

Column(p, c) == AsTuple([i \in 1 .. Len(p) |-> p[i][c]])

\* median of a window of odd length
Median(w) ==
    LET h == (Len(w) - 1) \div 2
    IN  IF \E j \in DOMAIN w : IsNaN(w[j]) THEN Unspecified
        ELSE CHOOSE v \in {w[j] : j \in DOMAIN w} :
                 /\ Cardinality({j \in DOMAIN w : w[j] < v}) <= h
                 /\ Cardinality({j \in DOMAIN w : w[j] <= v}) >= h + 1

\* sps.medfilt(x, k): median over k samples centered on each one, zeros
\* beyond the ends
MedFilt(x, k) ==
    LET h == (k - 1) \div 2
    IN  AsTuple([i \in 1 .. Len(x) |->
            Median(AsTuple([j \in 1 .. k |->
                LET at == i - h + j - 1
                IN  IF at < 1 \/ at > Len(x) THEN 0 ELSE x[at]]))])

\* weights of gaussian_filter1d(sigma=1.0), radius 4, in 1/10000
GaussWeights == <<3990, 2420, 540, 44, 1>>

\* index into x of position at under mode 'reflect' (d c b a | a b c d | d c b a)
Reflect(at, n) ==
    LET m == (at - 1) % (2 * n)
    IN  IF m < n THEN m + 1 ELSE 2 * n - m

\* spi.filters.gaussian_filter1d(x, sigma=1.0); x holds multiples of 1/1000
\* (the raw CSV prints three decimals), the result is in 1/1000000
GaussianFilter1d(x) ==
    AsTuple([i \in 1 .. Len(x) |->
        Round(SumSeq(AsTuple([j \in 1 .. 9 |->
                  GaussWeights[(IF j < 5 THEN 5 - j ELSE j - 5) + 1]
                      * (x[Reflect(i + j - 5, Len(x))] \div 1000)])),
              10)])

\* a sampling time taken from the last two records
SamplingTimeLast(p) == p[Len(p)][1] - p[Len(p) - 1][1]

\* dt = p[1,0] - p[0,0] (line 592): the sampling time, in 1/1000000 s
SamplingTime(p) == p[2][1] - p[1][1]

\* a filter that writes its result over the raw series
FilterPupilometryInPlace(raw, filt) ==
    IF ~raw.exists \/ Len(raw.lines) < 2 THEN [ret |-> "False", raw |-> raw, filt |-> filt,
                                              msg |-> "raw csv missing", k |-> <<>>]
    ELSE LET p == ReadPupilometry(raw.lines)
         IN  [ret |-> "True", raw |-> File(Tail(p)), filt |-> filt, msg |-> "",
              k |-> KernelWidths(p[2][1] - p[1][1])]

\* FilterPupilometry(pupils_raw_csv, pupils_filt_csv) on the two files:
\* how it ends, the files afterwards, what it reported, the kernels and the
\* sampling time used
FilterPupilometry(raw, filt) ==
    IF ~raw.exists
    THEN [ret |-> "False", raw |-> raw, filt |-> filt,
          msg |-> "raw csv missing", k |-> <<>>]
    ELSE IF Len(raw.lines) < 2
    THEN \* genfromtxt gives no 2-D array: p[1,0] raises
         [ret |-> "raised", raw |-> raw, filt |-> filt, msg |-> "", k |-> <<>>]
    ELSE LET p == ReadPupilometry(raw.lines)
             dt == SamplingTime(p)
         IN  IF dt <= 0
             THEN [ret |-> "raised", raw |-> raw, filt |-> filt, msg |-> "",
                   k |-> <<>>, dt |-> dt]
             ELSE LET k == KernelWidths(dt)
                  IN  IF \E f \in DOMAIN k : k[f] % 2 = 0
                      THEN \* medfilt refuses an even kernel size
                           [ret |-> "raised", raw |-> raw, filt |-> filt,
                            msg |-> "", k |-> k, dt |-> dt]
                      ELSE LET area == MedFilt(Column(p, 2), k.area)
                               px == MedFilt(Column(p, 3), k.px)
                               py == MedFilt(Column(p, 4), k.py)
                               blink == MedFilt(Column(p, 5), k.blink)
                               art == MedFilt(GaussianFilter1d(Column(p, 6)), k.art)
                               pf == AsTuple([i \in 1 .. Len(p) |->
                                         <<p[i][1], area[i], px[i], py[i], blink[i],
                                           art[i], p[i][7], p[i][8], p[i][9]>>])
                           IN  [ret |-> "True", raw |-> raw, filt |-> File(pf),
                                msg |-> "", k |-> k, dt |-> dt]

(***************************************************************************)
(* VideoPupilometry                                                        *)
(***************************************************************************)
Packages == {"mrgaze", "geetee"}
FrameRates == {4, 30}

NoFrame == [det |-> <<>>, blobs |-> {}, fit |-> NaNEllipse, art |-> 0,
            glint |-> <<0, 0>>]
NoArg == [fn |-> "none"]

OneBlob == {<<0, 0>>, <<0, 1>>}

\* the frames a video may hold: no candidate (a blink), one candidate, two
\* candidates with the larger one listed last; the opened mask of the ROI
\* empty or not
FrameInputs ==
    {[det |-> <<>>, blobs |-> {}, fit |-> NaNEllipse, art |-> 2, glint |-> <<101234, 55021>>],
     [det |-> <<RectA>>, blobs |-> OneBlob, fit |-> Ell1, art |-> 15004,
      glint |-> <<98766, 61009>>],
     [det |-> <<RectA>>, blobs |-> {}, fit |-> Ell1, art |-> 7003,
      glint |-> <<98766, 61009>>],
     [det |-> <<RectA, RectB>>, blobs |-> OneBlob, fit |-> Ell2, art |-> 120011,
      glint |-> <<87002, 43998>>]}

\* lines a raw CSV left by an earlier run may hold
OldLine1 == <<0, NaN, NaN, NaN, 1, 12, 101234, 55021>>
OldLine2 == <<250, 126, 22, 34, 0, 1500, 98766, 61009>>
RawInits == {Absent, File(<<>>), File(<<OldLine1>>), File(<<OldLine1, OldLine2>>)}

Init ==
    /\ pkg \in Packages
    /\ cfg \in [graphics : BOOLEAN, overwrite : BOOLEAN, method : {"otsu"}]
    /\ env \in [vinExists : BOOLEAN, cascadeOk : BOOLEAN, vinOpens : BOOLEAN,
                voutOpens : BOOLEAN, csvOpens : BOOLEAN]
    /\ fps \in FrameRates
    /\ nframes \in 0 .. MaxFrames
    /\ rawFile \in RawInits
    /\ raw0 = rawFile
    /\ filtFile = Absent
    /\ pc = "start"
    /\ keep_going = FALSE
    /\ frame = NoFrame
    /\ fc = 0
    /\ streams = {}
    /\ vout = 0
    /\ ret = "none"
    /\ msg = ""
    /\ frames = <<>>
    /\ results = <<>>
    /\ nfilter = 0
    /\ arg = NoArg
    /\ out = NoArg

\* an early return that always reports success
LeavesTrue(how, report, open) ==
    /\ pc' = "video_left"
    /\ ret' = "True"
    /\ msg' = report
    /\ streams' = open
    /\ UNCHANGED <<rawFile, keep_going, frame, fc, frames>>

\* VideoPupilometry returns (or dies) before the frame loop
Leaves(how, report, open) ==
    /\ pc' = "video_left"
    /\ ret' = how
    /\ msg' = report
    /\ streams' = open
    /\ UNCHANGED <<rawFile, keep_going, frame, fc, frames>>

\* a guard that never skips the run
GuardNever(package, exists, overwrite) == FALSE

\* the check for output CSV existence and overwrite flag (mrgaze lines
\* 102-109); geetee has none
GuardApplies(package, exists, overwrite) ==
    package = "mrgaze" /\ exists /\ ~overwrite

\* VideoPupilometry up to the frame loop (mrgaze lines 86-178, geetee lines
\* 64-144).  When the source has no frame at all, what media.LoadVideoFrame
\* hands back as frame is not a picture, and reading its shape may raise.
VideoSetup ==
    /\ pc = "start"
    /\ UNCHANGED <<pkg, cfg, env, fps, nframes, filtFile, vout, results, nfilter,
                   raw0, arg, out>>
    /\ IF ~env.vinExists
       THEN Leaves("False", "input video does not exist", {})
       ELSE IF ~env.cascadeOk
       THEN Leaves("False", "LBP cascade is empty", {})
       ELSE IF GuardApplies(pkg, rawFile.exists, cfg.overwrite)
       THEN Leaves("True", "overwrite forbidden", {})
       ELSE IF ~env.vinOpens
       THEN Leaves("False", "video input stream not opened", {})
       ELSE \E fr \in FrameInputs, shapeRaises \in BOOLEAN :
            IF nframes = 0 /\ shapeRaises
            THEN Leaves("raised", "", {"vin"})
            ELSE IF ~env.voutOpens
            THEN Leaves("False", "output video not opened", {"vin"})
            ELSE IF ~env.csvOpens
            THEN Leaves("False", "problem opening pupilometry CSV file", {"vin", "vout"})
            ELSE /\ rawFile' = File(<<>>)
                 /\ streams' = {"vin", "vout", "csv"}
                 /\ keep_going' = (nframes > 0)
                 /\ frame' = IF nframes > 0 THEN fr ELSE NoFrame
                 /\ frames' = IF nframes > 0 THEN <<fr>> ELSE <<>>
                 /\ fc' = 0
                 /\ ret' = "none"
                 /\ msg' = ""
                 /\ pc' = "loop"

\* a loop that a key press leaves whether or not graphics is on
KeyBreaksAlways(graphics, key) == key

\* if graphics: ... if cv2.waitKey(5) > 0: break (mrgaze lines 203-206,
\* geetee lines 170-173): the keyboard is polled only with graphics on
KeyBreaks(graphics, key) == graphics /\ key

\* one turn of the main video frame loop (mrgaze lines 180-223, geetee lines
\* 146-188); key is whether cv2.waitKey(5) reports a key press
FrameStep ==
    /\ pc = "loop"
    /\ keep_going
    /\ \E r \in {PupilometryEngine(frame, pkg, cfg.method)} :
           LET t == FrameTime(fc, fps)
               line == WritePupilometry(pkg, t, r.el, r.blink, frame.art, frame.glint)
           IN  /\ rawFile' = [rawFile EXCEPT !.lines = Append(@, line)]
               /\ results' = Append(results, r)
    /\ \E key \in BOOLEAN, fr \in FrameInputs :
           IF KeyBreaks(cfg.graphics, key)
           THEN /\ pc' = "exit"
                /\ UNCHANGED <<vout, keep_going, frame, fc, frames>>
           ELSE /\ vout' = vout + 1
                /\ keep_going' = (fc + 1 < nframes)
                /\ frame' = IF fc + 1 < nframes THEN fr ELSE NoFrame
                /\ frames' = IF fc + 1 < nframes THEN Append(frames, fr) ELSE frames
                /\ fc' = fc + 1
                /\ pc' = "loop"
    /\ UNCHANGED <<pkg, cfg, env, fps, nframes, filtFile, streams, ret, msg,
                   nfilter, raw0, arg, out>>

\* a clean-up that leaves the raw series stream open
CleanupLeavesCsvOpen ==
    /\ pc = "exit" \/ (pc = "loop" /\ ~keep_going)
    /\ streams' = streams \ {"vin", "vout"}
    /\ pc' = "closed"
    /\ UNCHANGED <<pkg, cfg, env, fps, nframes, rawFile, filtFile, keep_going,
                   frame, fc, vout, ret, msg, frames, results, nfilter, raw0,
                   arg, out>>

\* after the loop, clean up: the windows destroyed, both video streams
\* released, the raw series stream closed (mrgaze lines 225-229, geetee
\* lines 190-194)
Cleanup ==
    /\ pc = "exit" \/ (pc = "loop" /\ ~keep_going)
    /\ streams' = {}
    /\ pc' = "closed"
    /\ UNCHANGED <<pkg, cfg, env, fps, nframes, rawFile, filtFile, keep_going,
                   frame, fc, vout, ret, msg, frames, results, nfilter, raw0,
                   arg, out>>

\* after the clean-up: filter (mrgaze lines 231-233) and return True (mrgaze
\* line 236; geetee lines 200-201 have no filter)
Finish ==
    /\ pc = "closed"
    /\ IF pkg = "mrgaze"
       THEN \E f \in {FilterPupilometry(rawFile, filtFile)} :
                /\ rawFile' = f.raw
                /\ filtFile' = f.filt
                /\ msg' = f.msg
                /\ nfilter' = nfilter + 1
                /\ ret' = IF f.ret = "raised" THEN "raised" ELSE "True"
       ELSE /\ ret' = "True"
            /\ UNCHANGED <<rawFile, filtFile, msg, nfilter>>
    /\ pc' = "video_done"
    /\ UNCHANGED <<pkg, cfg, env, fps, nframes, keep_going, frame, fc, streams,
                   vout, frames, results, raw0, arg, out>>

\* FilterPupilometry called on its own on the files as they are
FilterCall ==
    /\ pc = "start"
    /\ pkg = "mrgaze"
    /\ \E f \in {FilterPupilometry(rawFile, filtFile)} :
           /\ rawFile' = f.raw
           /\ filtFile' = f.filt
           /\ msg' = f.msg
           /\ ret' = f.ret
    /\ nfilter' = nfilter + 1
    /\ pc' = "filter_done"
    /\ UNCHANGED <<pkg, cfg, env, fps, nframes, keep_going, frame, fc, streams,
                   vout, frames, results, raw0, arg, out>>

Next == VideoSetup \/ FrameStep \/ Cleanup \/ Finish \/ FilterCall

Spec == Init /\ [][Next]_vars

(***************************************************************************)
(* The functions called on their own, on inputs drawn from bounded sets    *)
(***************************************************************************)
Methods == {"otsu", "kmeans"}

\* frames for PupilometryEngine: every list of up to MaxCand candidates
EngineFrames ==
    {[det |-> d, blobs |-> b, fit |-> e, art |-> 15004, glint |-> <<98766, 61009>>] :
        d \in SeqsUpTo(Rects, MaxCand), b \in {{}, OneBlob}, e \in {Ell1, Ell2}}

\* pixel intensities of a ROI handed to RobustRescale, and the percentile
\* ranges it is called with: the default and the one SegmentPupil passes
Intensities == {0, 100, 255}
PercRanges == {<<5, 95>>, <<5, 50>>}

PureArgs ==
    {[fn |-> "SegmentPupil", blobs |-> b, method |-> m] :
        b \in SUBSET Pixels, m \in Methods}
    \cup {[fn |-> "PupilometryEngine", frame |-> f, package |-> k, method |-> "otsu"] :
        f \in EngineFrames, k \in Packages}
    \cup {[fn |-> "KernelWidths", dt |-> u * d] : u \in {1000, 25000}, d \in 1 .. MaxDt}
    \cup {[fn |-> "RobustRescale", gray |-> g, perc_range |-> r] :
        g \in SeqsUpTo(Intensities, MaxPix) \ {<<>>}, r \in PercRanges}

InitPure ==
    /\ pkg = "mrgaze"
    /\ cfg = [graphics |-> FALSE, overwrite |-> FALSE, method |-> "otsu"]
    /\ env = [vinExists |-> TRUE, cascadeOk |-> TRUE, vinOpens |-> TRUE,
              voutOpens |-> TRUE, csvOpens |-> TRUE]
    /\ fps = 30
    /\ nframes = 0
    /\ rawFile = Absent
    /\ raw0 = Absent
    /\ filtFile = Absent
    /\ pc = "call"
    /\ keep_going = FALSE
    /\ frame = NoFrame
    /\ fc = 0
    /\ streams = {}
    /\ vout = 0
    /\ ret = "none"
    /\ msg = ""
    /\ frames = <<>>
    /\ results = <<>>
    /\ nfilter = 0
    /\ arg \in PureArgs
    /\ out = NoArg

Returns(value) ==
    /\ pc = "call"
    /\ out' = value
    /\ pc' = "returned"
    /\ UNCHANGED <<pkg, cfg, env, fps, nframes, rawFile, filtFile, keep_going,
                   frame, fc, streams, vout, ret, msg, frames, results, nfilter,
                   raw0, arg>>

CallSegmentPupil ==
    /\ arg.fn = "SegmentPupil"
    /\ Returns(SegmentPupil(arg.blobs, arg.method))

CallPupilometryEngine ==
    /\ arg.fn = "PupilometryEngine"
    /\ Returns(PupilometryEngine(arg.frame, arg.package, arg.method))

CallKernelWidths ==
    /\ arg.fn = "KernelWidths"
    /\ Returns(KernelWidths(arg.dt))

\* which build of the library is installed, and what its cast of nan gives,
\* is not the caller's choice
CallRobustRescale ==
    /\ arg.fn = "RobustRescale"
    /\ \E guarded \in BOOLEAN, nan_as \in Intensities :
           Returns(RobustRescale(arg.gray, arg.perc_range, guarded, nan_as))

NextPure ==
    CallSegmentPupil \/ CallPupilometryEngine \/ CallKernelWidths \/ CallRobustRescale

SpecPure == InitPure /\ [][NextPure]_vars

(***************************************************************************)
(* Properties                                                              *)
(***************************************************************************)
InLoop == pc \in {"loop", "exit", "closed", "video_done"}
VideoEnded == pc \in {"video_left", "video_done"}

\* the line the frame loop writes for the i-th frame delivered (from 1)
RecordOf(i) ==
    LET r == PupilometryEngine(frames[i], pkg, cfg.method)
    IN  WritePupilometry(pkg, FrameTime(i - 1, fps), r.el, r.blink,
                         frames[i].art, frames[i].glint)

\* the raw series holds the records of the first n frames, in order
HoldsFirst(n) ==
    /\ Len(rawFile.lines) = n
    /\ Len(frames) >= n
    /\ \A i \in 1 .. n :
           /\ rawFile.lines[i] = RecordOf(i)
           /\ rawFile.lines[i][1] = Round(1000 * (i - 1), fps)

\* C1 as stated: after VideoPupilometry has gone through its frame loop on a
\* video of N frames the raw series holds exactly N records, the i-th that
\* of frame i with time i / framerate, whatever the settings
C1_AllFramesRecorded == pc = "video_done" => HoldsFirst(nframes)

\* C1 amended: in and after the frame loop the raw series holds exactly one
\* record per frame processed so far, in frame order, the i-th with time
\* i / framerate; a loop that ends at end of stream leaves N records; with
\* graphics on a key press ends the loop at once, leaving the records of the
\* frames up to the one shown, which is recorded but not written to the
\* output video
C1_OneRecordPerProcessedFrame ==
    InLoop =>
        /\ pc = "loop" => HoldsFirst(fc)
        /\ pc = "exit" => cfg.graphics /\ HoldsFirst(fc + 1) /\ vout = fc
        /\ pc \in {"closed", "video_done"} =>
               \/ HoldsFirst(nframes) /\ vout = nframes
               \/ cfg.graphics /\ HoldsFirst(vout + 1) /\ vout + 1 <= nframes

C1_Witness ==
    /\ pc = "video_done"
    /\ cfg.graphics
    /\ Len(rawFile.lines) = 2
    /\ nframes = 3

\* C2: for every record the frame loop has written, blink is 1 exactly when
\* the detector returned no candidate for that frame, and 0 otherwise,
\* whatever the segmentation or the fit gave
C2_BlinkIffNoCandidate ==
    InLoop =>
        \A i \in 1 .. Len(rawFile.lines) :
            /\ rawFile.lines[i][5] \in {0, 1}
            /\ rawFile.lines[i][5] = 1 <=> Len(frames[i].det) = 0

C2_Witness ==
    /\ InLoop
    /\ \E i, j \in 1 .. Len(rawFile.lines) :
           /\ rawFile.lines[i][5] = 1
           /\ rawFile.lines[j][5] = 0
           /\ frames[j].blobs = {}

\* C3: a frame without candidates makes PupilometryEngine return blink with
\* every ellipse field and both corners of roi_rect nan, without calling
\* SegmentPupil or FitPupil, and its record carries blink 1 with nan as area
\* and center
C3_BlinkIsAllNaN ==
    InLoop =>
        \A i \in 1 .. Len(results) :
            Len(frames[i].det) = 0 =>
                /\ results[i].blink
                /\ \A f \in {"cx", "cy", "b", "a", "phi"} : IsNaN(results[i].el[f])
                /\ \A c \in 1 .. 2 : \A d \in 1 .. 2 : IsNaN(results[i].roi_rect[c][d])
                /\ results[i].calls = <<>>
                /\ rawFile.lines[i][5] = 1
                /\ \A c \in 2 .. 4 : IsNaN(rawFile.lines[i][c])

C3_Witness ==
    /\ InLoop
    /\ \E i \in 1 .. Len(rawFile.lines) :
           Len(frames[i].det) = 0 /\ rawFile.lines[i][5] = 1

EngineReturned == pc = "returned" /\ arg.fn = "PupilometryEngine"

Corners(r) == <<<<r.x, r.y>>, <<r.x + r.w, r.y + r.h>>>>

\* i is the first of the largest candidates of the list
FirstLargest(det, i) ==
    /\ \A j \in 1 .. Len(det) : det[j].w * det[j].h <= det[i].w * det[i].h
    /\ \A j \in 1 .. (i - 1) : det[j].w * det[j].h < det[i].w * det[i].h

\* C4 as stated: with one or more candidates PupilometryEngine reports as
\* roi_rect the corners of the candidate of largest sqrt(w*h), the first of
\* them on a tie
C4_LargestCandidate ==
    EngineReturned /\ Len(arg.frame.det) > 0 =>
        \E i \in 1 .. Len(arg.frame.det) :
            /\ FirstLargest(arg.frame.det, i)
            /\ out.roi_rect = Corners(arg.frame.det[i])

\* C4 amended: that is what PupilometryEngine of mrgaze does; PupilometryEngine
\* of geetee uses the first candidate the detector lists, whatever its size;
\* both report roi_rect = ((x, y), (x+w, y+h)) of the candidate used
C4_LargestInMrgazeFirstInGeetee ==
    EngineReturned /\ Len(arg.frame.det) > 0 =>
        /\ ~out.blink
        /\ arg.package = "mrgaze" =>
               \E i \in 1 .. Len(arg.frame.det) :
                   /\ FirstLargest(arg.frame.det, i)
                   /\ out.roi_rect = Corners(arg.frame.det[i])
        /\ arg.package = "geetee" => out.roi_rect = Corners(arg.frame.det[1])

C4_Witness ==
    /\ EngineReturned
    /\ arg.package = "mrgaze"
    /\ Len(arg.frame.det) = 2
    /\ arg.frame.det[1].w * arg.frame.det[1].h < arg.frame.det[2].w * arg.frame.det[2].h
    /\ out.roi_rect = Corners(arg.frame.det[2])

\* the input cannot be had, or a sink cannot be opened
ResourceFails ==
    ~env.vinExists \/ ~env.vinOpens \/ ~env.voutOpens \/ ~env.csvOpens

NothingDone ==
    /\ pc = "video_left"
    /\ results = <<>>
    /\ vout = 0
    /\ rawFile = raw0
    /\ nfilter = 0
    /\ filtFile = Absent

\* C5 as stated: when the input video is missing or cannot be opened, or the
\* output video or the raw CSV cannot be opened, VideoPupilometry reports it
\* and returns False, the loop never entered, no record appended, no filter
C5_FailsOnBadResource ==
    VideoEnded /\ ResourceFails =>
        /\ ret = "False"
        /\ msg # ""
        /\ NothingDone

\* the overwrite guard of mrgaze returns True before any stream is tried
GuardSkips == pkg = "mrgaze" /\ raw0.exists /\ ~cfg.overwrite

\* C5 amended: a missing input video is always reported and answered False;
\* an input that cannot be opened, or an output video or raw CSV that cannot
\* be opened, is reported and answered False when VideoPupilometry gets to
\* open it: not when the overwrite guard has returned True before, nor, for
\* the two sinks, when the first read gave no frame and reading its shape
\* raised.  In every one of these cases the loop is never entered, no record
\* is appended and the filter is not run.
C5_FailsWhenReached ==
    VideoEnded /\ ResourceFails =>
        /\ NothingDone
        /\ ret \in {"False", "True", "raised"}
        /\ ~env.vinExists => ret = "False" /\ msg = "input video does not exist"
        /\ ret = "False" => msg # ""
        /\ ret = "True" => GuardSkips /\ env.vinExists /\ env.cascadeOk
        /\ ret = "raised" => nframes = 0 /\ env.vinOpens /\ ~GuardSkips
        /\ ~GuardSkips /\ nframes > 0 => ret = "False"

C5_Witness ==
    /\ pc = "video_left"
    /\ ~env.csvOpens
    /\ ret = "False"
    /\ streams = {"vin", "vout"}
    /\ raw0.exists

\* C6: when FilterPupilometry finds the raw series file absent or empty it
\* reports that, skips the filtering without raising and without writing a
\* filtered series, and VideoPupilometry still returns True
C6_EmptySeriesSkipped ==
    nfilter > 0 /\ (~rawFile.exists \/ rawFile.lines = <<>>) =>
        /\ ret # "raised"
        /\ msg # ""
        /\ filtFile = Absent
        /\ pc = "video_done" => ret = "True"

\* C7: a FilterPupilometry that writes a series writes one with as many
\* records and as many columns as the raw series it read, to the filtered
\* file, and leaves the raw file as it was
C7_FilterWritesSeparateSeries ==
    [][nfilter' > nfilter =>
          /\ rawFile' = rawFile
          /\ filtFile' # filtFile =>
                 /\ filtFile'.exists
                 /\ Len(filtFile'.lines) = Len(rawFile.lines)
                 /\ \A i \in 1 .. Len(rawFile.lines) :
                        Len(filtFile'.lines[i]) = Len(ReadPupilometry(rawFile.lines)[i])
          /\ ret' = "True" /\ Len(rawFile.lines) > 0 => filtFile'.exists]_vars

C7_Witness ==
    /\ pc = "video_done"
    /\ filtFile.exists
    /\ Len(filtFile.lines) = 3
    /\ rawFile = File([i \in 1 .. 3 |-> RecordOf(i)])

\* C8 as stated: a frame with a candidate whose segmentation is empty is
\* recorded as a blink
C8_EmptyMaskIsBlink ==
    InLoop =>
        \A i \in 1 .. Len(rawFile.lines) :
            Len(frames[i].det) > 0 /\ frames[i].blobs = {} => rawFile.lines[i][5] = 1

\* C8 amended: for such a frame SegmentPupil selects the background label and
\* returns the whole ROI as pupil mask, the mask goes to FitPupil, and the
\* frame is recorded once, with blink 0 and the center and area of whatever
\* ellipse the fitter returned; the frame is not retried
C8_EmptyMaskIsFitted ==
    InLoop =>
        /\ Len(results) = Len(rawFile.lines)
        /\ \A i \in 1 .. Len(results) :
               Len(frames[i].det) > 0 /\ frames[i].blobs = {} =>
                   /\ ~results[i].blink
                   /\ results[i].pupil_bw = Pixels
                   /\ results[i].calls = <<"SegmentPupil", "FitPupil">>
                   /\ rawFile.lines[i][5] = 0
                   /\ rawFile.lines[i][2] = Fmt1(PupilArea(frames[i].fit))

C8_Witness ==
    /\ pc = "loop"
    /\ fc = 2
    /\ Len(frames[1].det) > 0
    /\ frames[1].blobs = {}
    /\ rawFile.lines[1][5] = 0

\* C9: for a positive sampling interval every kernel width FilterPupilometry
\* uses is an odd integer of at least 1
C9_KernelWidthsOdd ==
    pc = "returned" /\ arg.fn = "KernelWidths" =>
        \A f \in {"area", "px", "py", "blink", "art"} :
            out[f] >= 1 /\ out[f] % 2 = 1

C9_Witness ==
    /\ pc = "returned"
    /\ arg.fn = "KernelWidths"
    /\ arg.dt = 33000
    /\ out.area = 9
    /\ out.art = 31

Components(S) == {Component(S, p) : p \in S}

\* C10: of an opened mask with two or more components SegmentPupil returns
\* exactly the pixels of the component of largest area, the one met first
\* when several are largest, and never the background
C10_LargestComponent ==
    pc = "returned" /\ arg.fn = "SegmentPupil" /\ Cardinality(Components(arg.blobs)) >= 2 =>
        /\ out.pupil_label # 0
        /\ out.pupil_bw \in Components(arg.blobs)
        /\ \A C \in Components(arg.blobs) :
               /\ Cardinality(C) <= Cardinality(out.pupil_bw)
               /\ Cardinality(C) = Cardinality(out.pupil_bw) =>
                      Raster(FirstPixel(out.pupil_bw)) <= Raster(FirstPixel(C))

C10_Witness ==
    /\ pc = "returned"
    /\ arg.fn = "SegmentPupil"
    /\ out.n_labels = 2
    /\ out.pupil_label = 2
    /\ out.areas[1] < out.areas[2]

\* the frame loop has been left
LoopLeft == pc \in {"exit", "closed", "video_done"}

\* C11 as stated: nothing cancels the frame loop: once entered it ends only
\* when the frame source reports end of stream, so when the loop has been
\* left every frame of the source has been processed and recorded
C11_LoopEndsOnlyAtEndOfStream ==
    LoopLeft =>
        /\ ~keep_going
        /\ fc = nframes
        /\ Len(results) = nframes
        /\ Len(rawFile.lines) = nframes

\* C11 amended: the loop is left either when the frame source reports end of
\* stream, every frame then processed, recorded and written to the output
\* video, or, with graphics on only, by the break on a key press, the source
\* then still holding frames that are never processed; with graphics off
\* the loop always runs to end of stream
C11_LoopEndsAtEndOfStreamOrKeyPress ==
    LoopLeft =>
        \/ /\ pc # "exit"
           /\ ~keep_going
           /\ fc = nframes
           /\ Len(results) = nframes
           /\ Len(rawFile.lines) = nframes
           /\ vout = nframes
        \/ /\ cfg.graphics
           /\ keep_going
           /\ fc < nframes
           /\ Len(results) = fc + 1
           /\ Len(rawFile.lines) = fc + 1
           /\ vout = fc

C11_Witness ==
    /\ pc = "closed"
    /\ cfg.graphics
    /\ keep_going
    /\ fc = 1
    /\ nframes = 3

\* C13: when a ROI with origin (x0, y0) is used and the fitter returns the
\* ellipse ((cx, cy), axes, rotation) in ROI coordinates, PupilometryEngine
\* returns ((cx + x0, cy + y0), axes, rotation) and blink false: the center
\* moved by the ROI origin (100 units of the center to the pixel), the axes
\* and the rotation as the fitter gave them
C13_CenterOffsetByRoiOrigin ==
    EngineReturned /\ Len(arg.frame.det) > 0 =>
        LET x0 == out.roi_rect[1][1]
            y0 == out.roi_rect[1][2]
            el_roi == arg.frame.fit
        IN  /\ out.roi_rect \in {Corners(arg.frame.det[i]) : i \in 1 .. Len(arg.frame.det)}
            /\ ~out.blink
            /\ out.el.cx = el_roi.cx + 100 * x0
            /\ out.el.cy = el_roi.cy + 100 * y0
            /\ out.el.b = el_roi.b
            /\ out.el.a = el_roi.a
            /\ out.el.phi = el_roi.phi

C13_Witness ==
    /\ EngineReturned
    /\ arg.frame.det = <<RectC>>
    /\ arg.frame.fit = Ell1
    /\ out.el = [cx |-> 323, cy |-> 238, b |-> 12, a |-> 20, phi |-> 30]

\* C14: when the opened mask has no foreground pixel SegmentPupil comes back
\* from the area selection (no crash) and signals the failure to its caller:
\* the mask it returns marks no pixel as pupil
C14_EmptyMaskSignalsFailure ==
    pc = "returned" /\ arg.fn = "SegmentPupil" /\ arg.blobs = {} =>
        /\ out.n_labels = 0
        /\ out.pupil_bw = {}

\* C15: the temporal filter is a second pass.  In every run of
\* VideoPupilometry of mrgaze that gets to the frame loop, FilterPupilometry
\* starts only when the loop has been left, the record of the last processed
\* frame is in the raw series and the raw series stream is closed; it is
\* started exactly once; and from its start on no record is appended to the
\* raw series
C15_FilterIsSecondPass ==
    [][/\ nfilter' > nfilter /\ pc # "start" =>
              /\ pkg = "mrgaze"
              /\ pc = "closed"
              /\ ~keep_going \/ cfg.graphics
              /\ "csv" \notin streams
              /\ Len(rawFile.lines) = Len(results)
              /\ \A i \in 1 .. Len(results) : rawFile.lines[i] = RecordOf(i)
              /\ nfilter = 0
              /\ nfilter' = 1
              /\ rawFile' = rawFile
       /\ nfilter > 0 => rawFile' = rawFile
       /\ pc' \in {"loop", "exit", "closed"} => nfilter' = 0
       /\ pkg = "mrgaze" /\ pc' = "video_done" => nfilter' = 1]_vars

C15_Witness ==
    /\ pkg = "mrgaze"
    /\ pc = "video_done"
    /\ nfilter = 1
    /\ streams = {}
    /\ ~cfg.graphics
    /\ Len(rawFile.lines) = 2
    /\ Len(results) = 2
    /\ filtFile.exists

\* C16: RobustRescale on a region whose intensities at the low and the high
\* percentile are equal returns the input clipped to those bounds, unscaled,
\* and divides nothing by zero
C16_FlatRegionClipped ==
    pc = "returned" /\ arg.fn = "RobustRescale" /\ out.pA = out.pB =>
        /\ ~out.divides_by_zero
        /\ Len(out.image) = Len(arg.gray)
        /\ \A i \in 1 .. Len(arg.gray) :
               100 * out.image[i] = Clip(100 * arg.gray[i], out.pA, out.pB)

\* nothing was opened or touched: no stream, no frame read, no record, the
\* raw CSV as it was found, no filter run
GuardLeftAllAlone ==
    /\ pc = "video_left"
    /\ streams = {}
    /\ frames = <<>>
    /\ results = <<>>
    /\ vout = 0
    /\ rawFile = raw0
    /\ nfilter = 0
    /\ filtFile = Absent

\* the raw CSV holds the records of this run and nothing else
HoldsThisRun ==
    /\ rawFile.exists
    /\ Len(rawFile.lines) = Len(results)
    /\ \A i \in 1 .. Len(results) : rawFile.lines[i] = RecordOf(i)

\* C17 as stated: when the raw CSV exists and overwrite is false,
\* VideoPupilometry of mrgaze returns True with no video stream opened, the
\* raw CSV neither truncated nor modified and no filter run; when overwrite
\* is true the raw CSV is replaced by the records of the new run
C17_OverwriteGuard ==
    pkg = "mrgaze" /\ VideoEnded /\ raw0.exists =>
        /\ ~cfg.overwrite => ret = "True" /\ GuardLeftAllAlone
        /\ cfg.overwrite => HoldsThisRun

\* C17 amended: the guard comes after the checks of the input video file and
\* of the cascade.  With the raw CSV present and overwrite false no stream
\* is opened, the raw CSV is left as it was and no filter is run, and the
\* answer is True when the input video file exists and the cascade loaded,
\* False when one of them did not.  With overwrite true the run goes on as
\* if there were no raw CSV: the file is truncated when it is opened for
\* writing, after the input and the output video have been opened, and from
\* then on holds the records of the new run only; a run that returns before
\* that leaves the old file as it was.
C17_GuardAfterInputChecks ==
    pkg = "mrgaze" /\ raw0.exists /\ pc \notin {"start", "filter_done"} =>
        /\ ~cfg.overwrite =>
               /\ GuardLeftAllAlone
               /\ ret = IF env.vinExists /\ env.cascadeOk THEN "True" ELSE "False"
        /\ cfg.overwrite =>
               /\ InLoop =>
                      /\ HoldsThisRun
                      /\ env.vinExists /\ env.cascadeOk /\ env.vinOpens
                      /\ env.voutOpens /\ env.csvOpens
               /\ pc = "video_left" => rawFile = raw0 /\ ret \in {"False", "raised"}

C17_Witness ==
    /\ pkg = "mrgaze"
    /\ pc = "video_left"
    /\ ~cfg.overwrite
    /\ raw0 = File(<<OldLine1, OldLine2>>)
    /\ rawFile = raw0
    /\ ret = "True"
    /\ nframes = 3

\* C18: of a series it filters FilterPupilometry leaves the time, glint_x
\* and glint_y columns alone: in every record of the filtered series they
\* have the values of the raw series read (the raw series prints 1/1000,
\* the filtered one 1/1000000); and the sampling time, hence every kernel
\* width, comes from the timestamps of the first two records only
C18_FilterLeavesTimeAndGlint ==
    [][nfilter' > nfilter /\ filtFile' # filtFile =>
          LET f == FilterPupilometry(rawFile, filtFile)
              dt == 1000 * (rawFile.lines[2][1] - rawFile.lines[1][1])
          IN  /\ Len(filtFile'.lines) = Len(rawFile.lines)
              /\ \A i \in 1 .. Len(rawFile.lines) :
                     /\ filtFile'.lines[i][1] = 1000 * rawFile.lines[i][1]
                     /\ filtFile'.lines[i][7] = 1000 * rawFile.lines[i][7]
                     /\ filtFile'.lines[i][8] = 1000 * rawFile.lines[i][8]
              /\ f.dt = dt
              /\ f.k = KernelWidths(dt)]_vars

C18_Witness ==
    /\ pc = "video_done"
    /\ fps = 30
    /\ filtFile.exists
    /\ Len(filtFile.lines) = 3
    /\ filtFile.lines[3][1] = 67000
    /\ filtFile.lines[3][7] = 1000 * rawFile.lines[3][7]
    /\ filtFile.lines[2][6] # 1000 * rawFile.lines[2][6]

====
